---- MODULE Spec2Model ----
(***************************************************************************)
(* State-machine model of the leveled logging facility of                  *)
(* src/src/pages/_app.tsx (the Logger class, createLogger and the pino     *)
(* option objects it builds).                                              *)
(*                                                                         *)
(* A process has fixed ambient signals (which globals exist, the           *)
(* environment variables); the module-level option objects devConfig,      *)
(* prodConfig, browserConfig and Logger.slackWebhookUrl are computed from  *)
(* them once.  Loggers are created with new Logger(name) and extend(sub),  *)
(* and the eight severity methods are called on them.                      *)
(*                                                                         *)
(* Environment variables are read as build-time values: the source reads   *)
(* process.env.* at module level (lines 89, 98, 104, 172), so a process    *)
(* without a process global that runs createLogger at all is one whose     *)
(* bundler has inlined those reads.  The model therefore lets NODE_ENV,    *)
(* LOG_LEVEL and SLACK_WEBHOOK_URL have a value whether or not a process   *)
(* global exists.                                                          *)
(***************************************************************************)
EXTENDS Integers, Sequences, FiniteSets, TLC

VARIABLES
    env,            \* the ambient signals of the process (never change)
    loggers,        \* the Logger instances constructed so far, in order
    lastNew,        \* what the most recent constructor call did
    lastCall,       \* the most recent severity-method call
    out,            \* the records that call wrote to the logger's sink
    slackMessage,   \* the alert payload that call built (NoPayload if none)
    dispatches      \* number of delivery attempts made to the alert channel

vars == <<env, loggers, lastNew, lastCall, out, slackMessage, dispatches>>

\* ------------------------------------------------------------------ bounds

MaxLoggers == 3

RootNames == {"App"}
SubNames == {"x", "y"}
Messages == {"msg"}

\* ------------------------------------------------------- severity scale

LOG_LEVELS_infoBelowLog ==
    [trace |-> 10, debug |-> 20, details |-> 25, log |-> 35,
     info |-> 30, warn |-> 40, error |-> 50, critical |-> 60]

LOG_LEVELS ==
    [trace |-> 10, debug |-> 20, details |-> 25, log |-> 30,
     info |-> 35, warn |-> 40, error |-> 50, critical |-> 60]

\* Object.keys(LOG_LEVELS): the own keys, in declaration order.
LevelOrder ==
    <<"trace", "debug", "details", "log", "info", "warn", "error", "critical">>

LevelNames == {LevelOrder[i] : i \in 1..Len(LevelOrder)}

levelToShort ==
    (10 :> "TRC") @@ (20 :> "DBG") @@ (25 :> "DTL") @@ (30 :> "LOG") @@
    (35 :> "INF") @@ (40 :> "WRN") @@ (50 :> "ERR") @@ (60 :> "CRT")

\* Property names every object literal inherits from Object.prototype; the
\* JavaScript `in` operator finds them, Object.keys does not.
ObjectPrototypeKeys ==
    {"toString", "constructor", "valueOf", "hasOwnProperty",
     "isPrototypeOf", "propertyIsEnumerable", "toLocaleString", "__proto__"}

\* key in LOG_LEVELS
InLogLevels(key) == key \in LevelNames \cup ObjectPrototypeKeys

\* A level field of a record: the raw numeric weight or a display string.
NumLevel(n) == [tag |-> "num", num |-> n, code |-> ""]
StrLevel(s) == [tag |-> "short", num |-> 0, code |-> s]

\* formatters.level(label).level
formattersLevel(label) ==
    IF label \in LevelNames THEN levelToShort[LOG_LEVELS[label]] ELSE "UNK"

\* ------------------------------------------------------ ambient signals

LogLevelValues ==
    {"", "verbose", "toString", "constructor"} \cup LevelNames

\* uaNode: navigator.userAgent includes "Node.js" (needs a navigator).
\* NEXT: which framework marker the environment holds.
AllEnvs ==
    { e \in [window : BOOLEAN, document : BOOLEAN, navigator : BOOLEAN,
             uaNode : BOOLEAN, process : BOOLEAN,
             NODE_ENV : {"production", "development"},
             NEXT : {"none", "NEXT_RUNTIME", "NEXT_PUBLIC_"},
             LOG_LEVEL : LogLevelValues,
             SLACK_WEBHOOK_URL : {"", "https://hooks.example/T0"}] :
        e.uaNode => e.navigator }

\* The deployments the severity methods are exercised in: a Node server, a
\* real browser and a framework-hosted client (window and process both
\* there).
Globals ==
    { [window |-> FALSE, document |-> FALSE, navigator |-> FALSE,
       uaNode |-> FALSE, process |-> TRUE],
      [window |-> TRUE, document |-> TRUE, navigator |-> TRUE,
       uaNode |-> FALSE, process |-> FALSE],
      [window |-> TRUE, document |-> TRUE, navigator |-> TRUE,
       uaNode |-> FALSE, process |-> TRUE] }

CallEnvs ==
    { e \in [window : BOOLEAN, document : BOOLEAN, navigator : BOOLEAN,
             uaNode : BOOLEAN, process : BOOLEAN,
             NODE_ENV : {"production", "development"},
             NEXT : {"none"},
             LOG_LEVEL : {"", "warn", "toString"},
             SLACK_WEBHOOK_URL : {"", "https://hooks.example/T0"}] :
        [window |-> e.window, document |-> e.document,
         navigator |-> e.navigator, uaNode |-> e.uaNode,
         process |-> e.process] \in Globals }

\* ------------------------------------------------- pino option objects

\* An option object: which of the module's objects it is, whether it holds
\* formatters.level / formatters.bindings / timestamp, and its level
\* ("" when the object sets none).
devConfig_withLevelFormatter(e) ==
    [id |-> "dev", levelFormatter |-> TRUE, bindingsFormatter |-> TRUE,
     timestamp |-> TRUE,
     level |-> IF e.LOG_LEVEL # "" /\ InLogLevels(e.LOG_LEVEL)
               THEN e.LOG_LEVEL ELSE "details"]

devConfig(e) ==
    [id |-> "dev", levelFormatter |-> FALSE, bindingsFormatter |-> TRUE,
     timestamp |-> TRUE,
     level |-> IF e.LOG_LEVEL # "" /\ InLogLevels(e.LOG_LEVEL)
               THEN e.LOG_LEVEL ELSE "details"]

prodConfig(e) ==
    [id |-> "prod", levelFormatter |-> TRUE, bindingsFormatter |-> TRUE,
     timestamp |-> TRUE,
     level |-> IF e.LOG_LEVEL # "" /\ InLogLevels(e.LOG_LEVEL)
               THEN e.LOG_LEVEL ELSE "info"]

browserConfig ==
    [id |-> "browser", levelFormatter |-> FALSE, bindingsFormatter |-> FALSE,
     timestamp |-> FALSE, level |-> ""]

\* Logger.slackWebhookUrl: process.env.SLACK_WEBHOOK_URL || null ("" is null)
slackWebhookUrl(e) == e.SLACK_WEBHOOK_URL

\* --------------------------------------------------------- createLogger

isRealBrowser(e) ==
    e.window /\ e.document /\ e.navigator /\ ~e.uaNode /\ ~e.process

isNextJS(e) ==
    \/ e.window /\ e.process
    \/ e.process /\ e.NEXT = "NEXT_RUNTIME"
    \/ e.process /\ e.NEXT = "NEXT_PUBLIC_"

selectConfig_productionFirst(e) ==
    IF e.NODE_ENV = "production" THEN prodConfig(e)
    ELSE IF isRealBrowser(e) THEN browserConfig
    ELSE devConfig(e)

\* The if / else-if / else of createLogger.  isNextJS is computed by the
\* function and read by nothing.
selectConfig(e) ==
    LET nextjs == isNextJS(e) IN
    IF isRealBrowser(e) THEN browserConfig
    ELSE IF e.NODE_ENV = "production" THEN prodConfig(e)
    ELSE devConfig(e)

\* createPrettyLogStream() of ./logging-dev: it returns the pretty stream,
\* or fails when the collaborator is unavailable.
createPrettyLogStream(available) ==
    [threw |-> ~available, stream |-> "pretty"]

\* pino's level when the options give none
PinoDefaultLevel == "info"

\* pino(options[, stream]) called by createLogger with
\* level: level || config.level.  With useOnlyCustomLevels a level that is
\* no key of customLevels is outside pino's contract: the build either
\* rejects it (throws) or returns a logger whose threshold is no weight.
pino(config, level, stream, rejects) ==
    LET lvl == IF level # "" THEN level
               ELSE IF config.level # "" THEN config.level
               ELSE PinoDefaultLevel
    IN  [threw |-> lvl \notin LevelNames /\ rejects,
         config |-> config.id,
         levelFormatter |-> config.levelFormatter,
         level |-> lvl,
         sink |-> stream]

\* createLogger(name, level): the pino child logger, or the exception.
createLogger(e, name, level, prettyAvailable, rejects) ==
    LET config == selectConfig(e)
        pretty == createPrettyLogStream(prettyAvailable)
        base == IF config.id = "dev" /\ ~e.window
                THEN IF pretty.threw
                     THEN [threw |-> TRUE, config |-> config.id,
                           levelFormatter |-> config.levelFormatter,
                           level |-> config.level, sink |-> "none"]
                     ELSE pino(config, level, pretty.stream, rejects)
                ELSE pino(config, level, "default", rejects)
    IN  [threw |-> base.threw, config |-> base.config,
         levelFormatter |-> base.levelFormatter, level |-> base.level,
         sink |-> base.sink, bindings |-> name]

\* --------------------------------------------------------------- Logger

\* new Logger(name).  root and subs are history: the name the chain of
\* extend calls started from and the subnames given since.
newLogger(e, name, root, subs, prettyAvailable, rejects) ==
    LET l == createLogger(e, name, "", prettyAvailable, rejects) IN
    [threw |-> l.threw,
     logger |-> [name |-> name, isBrowser |-> e.window,
                 config |-> l.config, levelFormatter |-> l.levelFormatter,
                 level |-> l.level, sink |-> l.sink,
                 bindings |-> l.bindings, root |-> root, subs |-> subs]]

extendName_noDot(name, subname) == name \o subname

\* `${this.name}.${subname}`
extendName(name, subname) == name \o "." \o subname

NoNew == [name |-> "", outcome |-> "none", config |-> "", level |-> "",
          sink |-> "", prettyAvailable |-> TRUE]

NewResult(name, r, prettyAvailable) ==
    [name |-> name, outcome |-> IF r.threw THEN "throws" ELSE "ok",
     config |-> r.logger.config, level |-> r.logger.level,
     sink |-> r.logger.sink, prettyAvailable |-> prettyAvailable]

construct_renamingParent(ls, i, e, name, root, subs, prettyAvailable, rejects) ==
    LET r == newLogger(e, name, root, subs, prettyAvailable, rejects)
        kept == IF i = 0 THEN ls ELSE [ls EXCEPT ![i].name = name]
    IN  IF r.threw THEN kept ELSE Append(kept, r.logger)

\* The loggers after a constructor call made by logger i (0: by a call
\* site): a new instance is added, or the exception leaves none.
construct(ls, i, e, name, root, subs, prettyAvailable, rejects) ==
    LET r == newLogger(e, name, root, subs, prettyAvailable, rejects)
    IN  IF r.threw THEN ls ELSE Append(ls, r.logger)

NoCall == [logger |-> 0, method |-> "", message |-> "", args |-> <<>>]
NoPayload == [text |-> "", attachments |-> <<>>]

InitState ==
    /\ loggers = <<>>
    /\ lastNew = NoNew
    /\ lastCall = NoCall
    /\ out = <<>>
    /\ slackMessage = NoPayload
    /\ dispatches = 0

Init == env \in CallEnvs /\ InitState

InitEnv == env \in AllEnvs /\ InitState

\* The outcomes of createPrettyLogStream() that a constructor call can
\* meet: createLogger calls it only on the development, no-window branch.
PrettyOutcomes(e) ==
    IF selectConfig(e).id = "dev" /\ ~e.window THEN BOOLEAN ELSE {TRUE}

\* Whether the pino build rejects the level: a choice only when the level
\* the options carry is no severity name.
RejectOutcomes(e) ==
    IF selectConfig(e).level \in LevelNames \cup {""} THEN {FALSE}
    ELSE BOOLEAN

\* new Logger(name) at a call site: the root logger of the process
NewLogger(name) ==
    /\ loggers = <<>>
    /\ \E prettyAvailable \in PrettyOutcomes(env),
          rejects \in RejectOutcomes(env) :
         /\ loggers' = construct(loggers, 0, env, name, name, <<>>,
                                 prettyAvailable, rejects)
         /\ lastNew' = NewResult(name,
                          newLogger(env, name, name, <<>>, prettyAvailable,
                                    rejects), prettyAvailable)
    /\ UNCHANGED <<env, lastCall, out, slackMessage, dispatches>>

\* loggers[i].extend(subname)
Extend(i, subname) ==
    /\ Len(loggers) < MaxLoggers
    /\ LET parent == loggers[i]
           name == extendName(parent.name, subname)
           subs == Append(parent.subs, subname)
       IN  \E prettyAvailable \in PrettyOutcomes(env),
              rejects \in RejectOutcomes(env) :
             /\ loggers' = construct(loggers, i, env, name, parent.root, subs,
                                     prettyAvailable, rejects)
             /\ lastNew' = NewResult(name,
                              newLogger(env, name, parent.root, subs,
                                        prettyAvailable, rejects),
                              prettyAvailable)
    /\ UNCHANGED <<env, lastCall, out, slackMessage, dispatches>>

\* ------------------------------------------------------ JSON rendering

\* The values given as context: numbers, strings, objects and arrays.
JNum(n) == [t |-> "num", n |-> n, s |-> "", kv |-> <<>>, items |-> <<>>]
JStr(s) == [t |-> "str", n |-> 0, s |-> s, kv |-> <<>>, items |-> <<>>]
JObj(kv) == [t |-> "obj", n |-> 0, s |-> "", kv |-> kv, items |-> <<>>]
JArr(items) == [t |-> "arr", n |-> 0, s |-> "", kv |-> <<>>, items |-> items]

RECURSIVE stringify(_, _)
RECURSIVE stringifyMembers(_, _, _)
RECURSIVE stringifyItems(_, _, _)

\* The members of an object from the k-th on, one per line at indent ind.
stringifyMembers(kv, k, ind) ==
    IF k > Len(kv) THEN ""
    ELSE ind \o "\"" \o kv[k].k \o "\": " \o stringify(kv[k].v, ind)
         \o (IF k < Len(kv) THEN ",\n" ELSE "")
         \o stringifyMembers(kv, k + 1, ind)

\* The items of an array from the k-th on, one per line at indent ind.
stringifyItems(items, k, ind) ==
    IF k > Len(items) THEN ""
    ELSE ind \o stringify(items[k], ind)
         \o (IF k < Len(items) THEN ",\n" ELSE "")
         \o stringifyItems(items, k + 1, ind)

\* JSON.stringify(v, null, 2) of a value that sits at indentation ind
stringify(v, ind) ==
    CASE v.t = "num" -> ToString(v.n)
      [] v.t = "str" -> "\"" \o v.s \o "\""
      [] v.t = "obj" ->
           IF v.kv = <<>> THEN "{}"
           ELSE "{\n" \o stringifyMembers(v.kv, 1, ind \o "  ")
                \o "\n" \o ind \o "}"
      [] v.t = "arr" ->
           IF v.items = <<>> THEN "[]"
           ELSE "[\n" \o stringifyItems(v.items, 1, ind \o "  ")
                \o "\n" \o ind \o "]"

ObjA1 == JObj(<< [k |-> "a", v |-> JNum(1)] >>)

ArgLists == { <<>>, <<ObjA1>>, <<JObj(<<>>), JStr("ctx")>> }

\* ----------------------------------------------------- severity methods

\* The pino method each Logger method calls: this.logger.<method>(...)
pinoMethod ==
    [critical |-> "critical", error |-> "error", warn |-> "warn",
     log |-> "log", info |-> "info", details |-> "details",
     debug |-> "debug", trace |-> "trace"]

\* The level field pino gives a record of the logger: formatters.level of
\* the label when the options hold that formatter, else the raw weight.
levelField(l, label) ==
    IF l.levelFormatter THEN StrLevel(formattersLevel(label))
    ELSE NumLevel(LOG_LEVELS[label])

\* What this.logger.<label>(message, ...args) writes to the sink: one
\* record, or nothing below the threshold.  A logger whose level is no
\* severity name has no threshold weight: passes says what its build does.
pinoWrite(l, label, message, args, passes) ==
    LET enabled == IF l.level \in LevelNames
                   THEN LOG_LEVELS[label] >= LOG_LEVELS[l.level]
                   ELSE passes
    IN  IF enabled
        THEN << [name |-> l.bindings, level |-> levelField(l, label),
                 msg |-> message, args |-> args] >>
        ELSE <<>>

\* The code fence critical() puts around the JSON: three grave accents in
\* the source.  A TLA+ string cannot hold a grave accent, so each one is
\* written here as an apostrophe.
fence == "'''"

slackPayload_rawJson(name, message, args) ==
    [text |-> "[" \o name \o "] CRITICAL: " \o message,
     attachments |->
        << [text |-> IF Len(args) > 0
                     THEN stringify(JArr(args), "")
                     ELSE "No additional context",
            color |-> "danger"] >>]

\* The slackMessage object critical() builds
slackPayload(name, message, args) ==
    [text |-> "[" \o name \o "] CRITICAL: " \o message,
     attachments |->
        << [text |-> IF Len(args) > 0
                     THEN fence \o stringify(JArr(args), "") \o fence
                     ELSE "No additional context",
            color |-> "danger"] >>]

alertOf_errorToo(e, method, name, message, args) ==
    IF method \in {"critical", "error"} /\ slackWebhookUrl(e) # ""
    THEN slackPayload(name, message, args)
    ELSE NoPayload

\* The payload a severity method builds after its pino call: critical()
\* builds one when Logger.slackWebhookUrl is set; the other seven methods
\* hold the pino call only.
alertOf(e, method, name, message, args) ==
    IF method = "critical" /\ slackWebhookUrl(e) # ""
    THEN slackPayload(name, message, args)
    ELSE NoPayload

\* What a build may do with a record of a logger whose level is no
\* severity name; a logger with a threshold weight leaves no choice.
UnknownThreshold(l) == IF l.level \in LevelNames THEN {TRUE} ELSE BOOLEAN

\* loggers[i].<method>(message, ...args).  No statement of any method
\* sends the payload: dispatches is left as it is.
Call(i, method, message, args) ==
    /\ LET l == loggers[i] IN
         /\ \E passes \in UnknownThreshold(l) :
              out' = pinoWrite(l, pinoMethod[method], message, args, passes)
         /\ slackMessage' = alertOf(env, method, l.name, message, args)
    /\ lastCall' = [logger |-> i, method |-> method, message |-> message,
                    args |-> args]
    /\ UNCHANGED <<env, loggers, lastNew, dispatches>>

\* The bounded workload: one root logger, then extend calls that each start
\* from the newest logger, up to MaxLoggers instances.  Every logger made
\* stays in use: the severity methods are called on any of them.
Newest == IF loggers = <<>> THEN {} ELSE {Len(loggers)}

NextEnv ==
    \/ \E name \in RootNames : NewLogger(name)
    \/ \E i \in Newest, subname \in SubNames : Extend(i, subname)

Next ==
    \/ \E name \in RootNames : NewLogger(name)
    \/ \E i \in Newest, subname \in SubNames : Extend(i, subname)
    \/ \E i \in 1..Len(loggers), method \in LevelNames,
          message \in Messages, args \in ArgLists :
            Call(i, method, message, args)

\* Loggers are created and their severity methods called, in the
\* deployments of CallEnvs.
Spec == Init /\ [][Next]_vars

\* createLogger applied under every combination of ambient signals.
SpecEnv == InitEnv /\ [][NextEnv]_vars

\* ================================================================ claims

\* The logger the most recent severity call was made on
Called == loggers[lastCall.logger]

\* The weights and display codes as the specification lists them
SpecWeights ==
    [trace |-> 10, debug |-> 20, details |-> 25, log |-> 30,
     info |-> 35, warn |-> 40, error |-> 50, critical |-> 60]

SpecShortCodes ==
    [trace |-> "TRC", debug |-> "DBG", details |-> "DTL", log |-> "LOG",
     info |-> "INF", warn |-> "WRN", error |-> "ERR", critical |-> "CRT"]

\* C1: every critical() call made while SLACK_WEBHOOK_URL is configured
\* makes exactly one delivery attempt to the alert channel, and a critical()
\* call made while none is configured makes no attempt.
C1_CriticalAttemptsDelivery ==
    [][\A i \in 1..Len(loggers), message \in Messages, args \in ArgLists :
         Call(i, "critical", message, args) =>
           dispatches' = dispatches
                         + (IF slackWebhookUrl(env) # "" THEN 1 ELSE 0)]_vars

\* C2: a severity call writes exactly one record (with the message and the
\* args) when the method's weight is at least the logger's threshold weight
\* and nothing when it is below; with the defaults a development logger
\* (details) drops exactly trace and debug and a production logger (info)
\* drops exactly trace, debug, details and log.
C2_ThresholdFilter ==
    (lastCall # NoCall /\ Called.level \in LevelNames) =>
      LET m == lastCall.method
          t == Called.level
      IN  /\ SpecWeights[m] >= SpecWeights[t] =>
                /\ Len(out) = 1
                /\ out[1].msg = lastCall.message
                /\ out[1].args = lastCall.args
          /\ SpecWeights[m] < SpecWeights[t] => out = <<>>
          /\ (Called.config = "dev" /\ env.LOG_LEVEL = "") =>
                /\ t = "details"
                /\ (out = <<>>) <=> (m \in {"trace", "debug"})
          /\ (Called.config = "prod" /\ env.LOG_LEVEL = "") =>
                /\ t = "info"
                /\ (out = <<>>) <=>
                     (m \in {"trace", "debug", "details", "log"})

\* C2 witness: a production logger with the default threshold dropped log()
C2_Witness ==
    /\ lastCall # NoCall
    /\ lastCall.method = "log"
    /\ Called.config = "prod"
    /\ env.LOG_LEVEL = ""
    /\ out = <<>>

\* C3: createLogger selects the browser configuration exactly when window,
\* document and navigator exist, the user agent does not name Node.js and no
\* process global exists; otherwise production when NODE_ENV is
\* "production"; otherwise development.  The framework markers and
\* isNextJS have no part in the selection.
C3_ConfigPrecedence ==
    lastNew.outcome # "none" =>
      /\ lastNew.config =
           (IF env.window /\ env.document /\ env.navigator
               /\ ~env.uaNode /\ ~env.process
            THEN "browser"
            ELSE IF env.NODE_ENV = "production" THEN "prod" ELSE "dev")
      /\ \A i \in 1..Len(loggers) : loggers[i].config = lastNew.config

\* C3 witness: a framework-hosted process that has every browser global
\* and a process global was given the production configuration
C3_Witness ==
    /\ lastNew.outcome = "ok"
    /\ isNextJS(env)
    /\ env.window /\ env.document /\ env.navigator /\ ~env.uaNode
    /\ env.process
    /\ env.NODE_ENV = "production"
    /\ lastNew.config = "prod"

\* C4: under the development and production configurations the threshold
\* is LOG_LEVEL when that is one of the eight severity names, and for every
\* other value it is the default (details, info) and the constructor
\* returns normally.  (Stated for constructor calls that met no failure of
\* the pretty-print collaborator.)
C4_LogLevelOverride ==
    (lastNew.outcome # "none" /\ lastNew.config \in {"dev", "prod"}
       /\ lastNew.prettyAvailable) =>
      /\ lastNew.outcome = "ok"
      /\ lastNew.level =
           (IF env.LOG_LEVEL \in DOMAIN SpecWeights THEN env.LOG_LEVEL
            ELSE IF lastNew.config = "dev" THEN "details" ELSE "info")

\* C5 as stated: a development record carries the raw numeric weight; a
\* production record and a browser record carry the 3-letter short code;
\* an unrecognized level name is shown as "UNK".
C5_LevelFieldAsStated ==
    /\ \A label \in LogLevelValues \ DOMAIN SpecWeights :
         formattersLevel(label) = "UNK"
    /\ (lastCall # NoCall /\ out # <<>>) =>
         LET m == lastCall.method IN
         /\ Called.config = "dev" =>
              out[1].level = NumLevel(SpecWeights[m])
         /\ Called.config \in {"prod", "browser"} =>
              out[1].level = StrLevel(SpecShortCodes[m])

\* C5 as amended: a development record carries the raw numeric weight; only
\* a production record carries the 3-letter short code; the browser
\* configuration holds no level formatter, so a browser record's level is
\* not a short code; an unrecognized level name is shown as "UNK".
C5_LevelFieldByFormatter ==
    /\ \A label \in LogLevelValues \ DOMAIN SpecWeights :
         formattersLevel(label) = "UNK"
    /\ (lastCall # NoCall /\ out # <<>>) =>
         LET m == lastCall.method IN
         /\ Called.config = "dev" =>
              out[1].level = NumLevel(SpecWeights[m])
         /\ Called.config = "prod" =>
              out[1].level = StrLevel(SpecShortCodes[m])
         /\ Called.config = "browser" =>
              /\ out[1].level.tag # "short"
              /\ ~Called.levelFormatter

\* C5 witness: a logger under the browser configuration wrote a record
C5_Witness ==
    /\ lastCall # NoCall
    /\ out # <<>>
    /\ Called.config = "browser"
    /\ lastCall.method = "warn"

RECURSIVE DotJoined(_, _)
\* root and the subnames joined by single dots, in order
DotJoined(root, subs) ==
    IF subs = <<>> THEN root
    ELSE DotJoined(root, SubSeq(subs, 1, Len(subs) - 1))
         \o "." \o subs[Len(subs)]

\* C6: a logger reached from root R by extend(s1)...extend(sn) is named
\* "R.s1. ... .sn", and its records carry that name; extend("x") then
\* extend("y") gives "<root>.x.y".
C6_ExtendJoinsWithDots ==
    /\ \A i \in 1..Len(loggers) :
         /\ loggers[i].name = DotJoined(loggers[i].root, loggers[i].subs)
         /\ loggers[i].bindings = loggers[i].name
         /\ (loggers[i].root = "App" /\ loggers[i].subs = <<"x", "y">>) =>
              loggers[i].name = "App.x.y"
    /\ (lastCall # NoCall /\ out # <<>>) =>
         out[1].name = DotJoined(Called.root, Called.subs)

\* C6 witness: the logger made by extend("x").extend("y") wrote a record
C6_Witness ==
    /\ lastCall # NoCall
    /\ Called.subs = <<"x", "y">>
    /\ out # <<>>
    /\ out[1].name = "App.x.y"

\* C7: when the development, no-window branch is taken and the pretty-print
\* collaborator is unavailable, the constructor still returns a logger,
\* bound to the structured line sink.
C7_PrettyFallback ==
    (lastNew.outcome # "none" /\ lastNew.config = "dev" /\ ~env.window
       /\ ~lastNew.prettyAvailable) =>
      /\ lastNew.outcome = "ok"
      /\ lastNew.sink = "default"

\* The payload parts C8 speaks of
C8_Built ==
    /\ lastCall # NoCall
    /\ lastCall.method = "critical"
    /\ slackWebhookUrl(env) # ""

\* C8 as stated: the payload of critical(message, ...args) on logger N has
\* text "[N] CRITICAL: <message>", one attachment of color "danger", and a
\* detail that is the pretty-printed JSON of the context given (of the one
\* value given, or of the list of values given), or "No additional
\* context" when none is given.
C8_PayloadAsStated ==
    C8_Built =>
      /\ slackMessage.text
           = "[" \o Called.name \o "] CRITICAL: " \o lastCall.message
      /\ Len(slackMessage.attachments) = 1
      /\ slackMessage.attachments[1].color = "danger"
      /\ lastCall.args = <<>> =>
           slackMessage.attachments[1].text = "No additional context"
      /\ lastCall.args # <<>> =>
           slackMessage.attachments[1].text
             \in {stringify(lastCall.args[1], ""),
                  stringify(JArr(lastCall.args), "")}

\* C8 as amended: as stated, but the detail for a call with args is the
\* pretty-printed (2-space) JSON of the array of all args given, wrapped
\* in a code fence.
C8_PayloadFencedArray ==
    C8_Built =>
      /\ slackMessage.text
           = "[" \o Called.name \o "] CRITICAL: " \o lastCall.message
      /\ Len(slackMessage.attachments) = 1
      /\ slackMessage.attachments[1].color = "danger"
      /\ lastCall.args = <<>> =>
           slackMessage.attachments[1].text = "No additional context"
      /\ lastCall.args # <<>> =>
           slackMessage.attachments[1].text
             = fence \o stringify(JArr(lastCall.args), "") \o fence
      /\ lastCall.args = <<ObjA1>> =>
           slackMessage.attachments[1].text
             = fence \o "[\n  {\n    \"a\": 1\n  }\n]" \o fence
      /\ lastCall.args = <<JObj(<<>>), JStr("ctx")>> =>
           slackMessage.attachments[1].text
             = fence \o "[\n  {},\n  \"ctx\"\n]" \o fence

\* C8 witness: critical("msg", {a: 1}) built a payload on an extended logger
C8_Witness ==
    /\ C8_Built
    /\ lastCall.args = <<ObjA1>>
    /\ Called.name = "App.x"
    /\ slackMessage.text = "[App.x] CRITICAL: msg"

\* C9: a call of one of the seven methods below critical builds no alert
\* payload and makes no delivery attempt, with or without an alert address.
C9_OnlyCriticalAlerts ==
    (lastCall # NoCall /\ lastCall.method # "critical") =>
      /\ slackMessage = NoPayload
      /\ dispatches = 0

\* C9 witness: error() wrote a record while an alert address was configured
C9_Witness ==
    /\ lastCall # NoCall
    /\ lastCall.method = "error"
    /\ slackWebhookUrl(env) # ""
    /\ out # <<>>
    /\ slackMessage = NoPayload

\* C10: no step (a severity call, an extend, a constructor call) changes a
\* logger that exists: its name, threshold, sink and every other field stay
\* as constructed, and extend only adds an instance.
C10_LoggersImmutable ==
    [][/\ Len(loggers') >= Len(loggers)
       /\ \A i \in 1..Len(loggers) : loggers'[i] = loggers[i]]_vars

\* C10 witness: a parent that has been extended twice wrote a record
C10_Witness ==
    /\ Len(loggers) >= 3
    /\ lastCall # NoCall
    /\ lastCall.logger = 1
    /\ out # <<>>
    /\ loggers[3].subs # <<>>

====
